---------------------------- MODULE Spec2Model ----------------------------
(***************************************************************************)
(* Model of the pricing recorder: the listing parser                      *)
(* (pricing_recorder/parser.py), slugify_key (pricing_recorder/utils.py),  *)
(* Product.as_flat_dict (pricing_recorder/models.py), the HTTP client      *)
(* (pricing_recorder/client.py) and the collector                          *)
(* (src/pricing_recorder/collector.py).  Each has its own specification    *)
(* over the same variables; the variables of the others stay idle.         *)
(*                                                                         *)
(* Strings are sequences of atoms.  An atom is a single character, or, in  *)
(* URLs only, a fixed chunk of characters that the parser never looks      *)
(* into.  Python's None is the distinguished value None.  A dict is a      *)
(* function; where the code depends on insertion order (the keyed products *)
(* map) the order is kept next to it as a sequence of keys.                *)
(***************************************************************************)
EXTENDS Integers, Sequences, FiniteSets, TLC

(***************************************************************************)
(* Bounds                                                                  *)
(***************************************************************************)
MaxCards == 3
MaxLabelLen == 3

(***************************************************************************)
(* Strings                                                                 *)
(***************************************************************************)
None == <<"None">>

Truthy(s) == s # None /\ s # <<>>

UpperChars == <<"A","B","C","D","E","F","G","H","I","J","K","L","M",
                "N","O","P","Q","R","S","T","U","V","W","X","Y","Z">>

LowerChars == <<"a","b","c","d","e","f","g","h","i","j","k","l","m",
                "n","o","p","q","r","s","t","u","v","w","x","y","z">>

Digits == {"0","1","2","3","4","5","6","7","8","9"}

Whitespace == {" "}

LowerChar(c) ==
    IF \E i \in 1..26 : UpperChars[i] = c
    THEN LowerChars[CHOOSE i \in 1..26 : UpperChars[i] = c]
    ELSE c

Lower(s) == [i \in 1..Len(s) |-> LowerChar(s[i])]

RECURSIVE LStripChars(_, _)
LStripChars(s, chars) ==
    IF s # <<>> /\ Head(s) \in chars THEN LStripChars(Tail(s), chars) ELSE s

RECURSIVE RStripChars(_, _)
RStripChars(s, chars) ==
    IF s # <<>> /\ s[Len(s)] \in chars
    THEN RStripChars(SubSeq(s, 1, Len(s) - 1), chars)
    ELSE s

StripChars(s, chars) == RStripChars(LStripChars(s, chars), chars)

Strip(s) == StripChars(s, Whitespace)

StartsWith(s, prefix) ==
    Len(s) >= Len(prefix) /\ SubSeq(s, 1, Len(prefix)) = prefix

\* text.split(":", 1)[1]: what follows the first colon
AfterColon(s) ==
    LET i == CHOOSE j \in 1..Len(s) :
                 s[j] = ":" /\ \A k \in 1..(j - 1) : s[k] # ":"
    IN SubSeq(s, i + 1, Len(s))

\* dict.update(other)
Update(d, other) ==
    [k \in DOMAIN d \cup DOMAIN other |->
        IF k \in DOMAIN other THEN other[k] ELSE d[k]]

EmptyDict == [k \in {} |-> <<>>]

(***************************************************************************)
(* utils.slugify_key                                                       *)
(***************************************************************************)
SlugChar(c) == c \in Digits \/ \E i \in 1..26 : LowerChars[i] = c

\* _SLUG_PATTERN.sub("_", value): each maximal run of characters outside
\* [a-z0-9] becomes one underscore
RECURSIVE SlugSub(_)
SlugSub(s) ==
    IF s = <<>> THEN <<>>
    ELSE IF SlugChar(Head(s)) THEN <<Head(s)>> \o SlugSub(Tail(s))
    ELSE LET rest == SlugSub(Tail(s))
         IN IF Tail(s) # <<>> /\ ~SlugChar(Head(Tail(s)))
            THEN rest
            ELSE <<"_">> \o rest

\* slugify_key with a fallback token that is not itself a slug
slugify_key_CapitalFallback(value) ==
    LET v3 == StripChars(SlugSub(Lower(Strip(value))), {"_"})
    IN IF v3 # <<>> THEN v3 ELSE <<"V","a","l","u","e">>

slugify_key(value) ==
    LET v1 == Lower(Strip(value))
        v2 == SlugSub(v1)
        v3 == StripChars(v2, {"_"})
    IN IF v3 # <<>> THEN v3 ELSE <<"v","a","l","u","e">>

(***************************************************************************)
(* parser.py: module tables                                                *)
(***************************************************************************)
LOGIN_TEXTS == { <<"l","o","g"," ","i","n">>, <<"s","i","g","n"," ","i","n">> }

Label_MAP == <<"M","A","P">>
Label_MSRP == <<"M","S","R","P">>
Label_Dealer == <<"D","e","a","l","e","r">>
Label_YourPrice == <<"Y","o","u","r"," ","P","r","i","c","e">>
Label_SalePrice == <<"S","a","l","e"," ","P","r","i","c","e">>
Label_SpecialPrice == <<"S","p","e","c","i","a","l"," ","P","r","i","c","e">>
Label_Price == <<"P","r","i","c","e">>

\* _FIELD_PREFIXES in its insertion order, as <<prefix, label>> pairs
FIELD_PREFIXES ==
    << << <<"m","a","p",":">>, Label_MAP >>,
       << <<"m","s","r","p",":">>, Label_MSRP >>,
       << <<"d","e","a","l","e","r",":">>, Label_Dealer >>,
       << <<"y","o","u","r"," ","p","r","i","c","e",":">>, Label_YourPrice >>,
       << <<"s","a","l","e"," ","p","r","i","c","e",":">>, Label_SalePrice >>,
       << <<"s","p","e","c","i","a","l"," ","p","r","i","c","e",":">>,
          Label_SpecialPrice >>,
       << <<"p","r","i","c","e",":">>, Label_Price >> >>

PRICE_FIELD_KEYS ==
    {Label_Dealer, Label_YourPrice, Label_Price, Label_SalePrice,
     Label_SpecialPrice}

ModelPrefix == <<"m","o","d","e","l",":">>

LoginToSeePricing ==
    <<"l","o","g"," ","i","n"," ","t","o"," ","s","e","e"," ",
      "p","r","i","c","i","n","g">>

DEFAULT_BASE_URL == <<"https://21stcenturydist.com", "/">>

ItemSearchHead == "default.cfm?itemsearch="
ItemSearchTail == "&page=products&searchcode=N"

IsLogin(s) == Lower(s) \in LOGIN_TEXTS

(***************************************************************************)
(* A card is the part of the markup the selectors of parser.py look at:    *)
(*   selected   the div carries every class of the listing selector        *)
(*   formValue  value attribute of form input[name='item'], or None        *)
(*   dataItem   data-item attribute of .moreInfoButton, or None            *)
(*   href       href of a[href*='itemsearch='], or None                    *)
(*   imgSrc     src of img[src*='/wce/thumbnails/'], or None               *)
(*   badges     texts of the .inStock/.outStock/.productStock elements     *)
(*   tables     the tables, each a sequence of rows of td texts            *)
(*   cols       the columns in document order, each with col6 (it is a     *)
(*              div.col-6), prices (its .productPrice elements, each with  *)
(*              the four attributes and the text) and paras (its           *)
(*              p.productDescription elements, bold when font-weight-bold) *)
(***************************************************************************)
RECURSIVE Flatten(_)
Flatten(ss) == IF ss = <<>> THEN <<>> ELSE Head(ss) \o Flatten(Tail(ss))

CardParas(card) == Flatten([i \in 1..Len(card.cols) |-> card.cols[i].paras])

CardPrices(card) == Flatten([i \in 1..Len(card.cols) |-> card.cols[i].prices])

\* urljoin(base_url, ref) for a base that ends with "/"
urljoin(base, ref) ==
    IF ref = <<>> THEN base
    ELSE IF Head(ref) = Head(base) THEN ref
    ELSE IF Head(ref) = "/" THEN <<Head(base)>> \o ref
    ELSE base \o ref

\* (base_url or DEFAULT_BASE_URL).rstrip("/") + "/"
NormBase(base_url) ==
    RStripChars(IF Truthy(base_url) THEN base_url ELSE DEFAULT_BASE_URL, {"/"})
        \o <<"/">>

_first_truthy(values) ==
    IF \E i \in 1..Len(values) : Truthy(values[i])
    THEN values[CHOOSE i \in 1..Len(values) :
                    Truthy(values[i]) /\ \A j \in 1..(i - 1) : ~Truthy(values[j])]
    ELSE None

_extract_item_number(card) ==
    IF card.formValue # None THEN Strip(card.formValue)
    ELSE IF card.dataItem # None THEN Strip(card.dataItem)
    ELSE None

_extract_description(card) ==
    LET ps == SelectSeq(CardParas(card), LAMBDA p : p.bold)
    IN IF ps # <<>> THEN Strip(ps[1].text) ELSE None

_extract_model(card) ==
    LET ps == SelectSeq(CardParas(card),
                        LAMBDA p : StartsWith(Lower(Strip(p.text)), ModelPrefix))
    IN IF ps # <<>> THEN Strip(AfterColon(Strip(ps[1].text))) ELSE None

_extract_price(card) ==
    LET ps == CardPrices(card)
    IN IF ps = <<>> THEN None
       ELSE LET attr_value == _first_truthy(ps[1].attrs)
                text == Strip(ps[1].text)
            IN IF Truthy(attr_value) /\ ~IsLogin(Strip(attr_value))
               THEN Strip(attr_value)
               ELSE IF Truthy(text) /\ ~IsLogin(text) THEN text
               ELSE None

_extract_stock(card) ==
    IF card.badges # <<>> THEN Strip(card.badges[1]) ELSE None

RECURSIVE InventoryRows(_, _)
InventoryRows(rows, inventory) ==
    IF rows = <<>> THEN inventory
    ELSE LET cells == [i \in 1..Len(Head(rows)) |-> Strip(Head(rows)[i])]
             location == RStripChars(cells[1], {":", " "})
         IN IF Len(cells) # 2 \/ location = <<>>
            THEN InventoryRows(Tail(rows), inventory)
            ELSE InventoryRows(Tail(rows),
                               Update(inventory, (location :> cells[2])))

_extract_inventory(card) ==
    IF card.tables = <<>> THEN EmptyDict
    ELSE InventoryRows(card.tables[1], EmptyDict)

_extract_detail_url(card, item_number, base_url) ==
    LET item == IF card.dataItem # None THEN Strip(card.dataItem)
                ELSE item_number
    IN IF card.href # None THEN urljoin(base_url, card.href)
       ELSE IF Truthy(item)
       THEN urljoin(base_url, <<ItemSearchHead>> \o item \o <<ItemSearchTail>>)
       ELSE None

_extract_image_url(card, base_url) ==
    IF card.imgSrc # None THEN urljoin(base_url, card.imgSrc) ELSE None

\* the for/else over _FIELD_PREFIXES for one paragraph text
FieldOfLine(text) ==
    LET lower == Lower(text)
        hits == SelectSeq(FIELD_PREFIXES, LAMBDA pl : StartsWith(lower, pl[1]))
    IN IF hits # <<>>
       THEN (hits[1][2] :> Strip(AfterColon(text)))
       ELSE (text :> <<>>)

RECURSIVE FieldsOfParas(_, _)
FieldsOfParas(paras, fields) ==
    IF paras = <<>> THEN fields
    ELSE LET text == Strip(Head(paras).text)
             lower == Lower(text)
         IN IF text = <<>> \/ StartsWith(lower, ModelPrefix)
               \/ lower = LoginToSeePricing
            THEN FieldsOfParas(Tail(paras), fields)
            ELSE FieldsOfParas(Tail(paras), Update(fields, FieldOfLine(text)))

_extract_extra_fields(card) ==
    LET col6 == SelectSeq(card.cols, LAMBDA c : c.col6)
        priced == SelectSeq(col6, LAMBDA c : c.prices # <<>>)
        described == SelectSeq(col6, LAMBDA c : c.paras # <<>>)
    IN IF priced # <<>> THEN FieldsOfParas(priced[1].paras, EmptyDict)
       ELSE IF described # <<>> THEN FieldsOfParas(described[1].paras, EmptyDict)
       ELSE EmptyDict

\* order: the order in which this run iterates the set _PRICE_FIELD_KEYS
_derive_price_from_fields(fields, order) ==
    LET hits == SelectSeq(order,
                          LAMBDA k : k \in DOMAIN fields /\ Truthy(fields[k]))
    IN IF hits # <<>> THEN fields[hits[1]] ELSE None

\* _merge_products with extra_fields.update(secondary.extra_fields)
_merge_products_PlainUpdate(primary, secondary) ==
    LET Blank(v) == ~Truthy(v) \/ Strip(v) = <<>>
        Pick(cur, inc) == IF Blank(cur) /\ Truthy(inc) THEN inc ELSE cur
        inv == secondary.inventory_by_location
        invKeys == {k \in DOMAIN inv : Truthy(inv[k])}
    IN [primary EXCEPT
          !.item_number =
              IF ~Truthy(primary.item_number) /\ Truthy(secondary.item_number)
              THEN secondary.item_number ELSE @,
          !.model = Pick(@, secondary.model),
          !.description = Pick(@, secondary.description),
          !.stock_status = Pick(@, secondary.stock_status),
          !.detail_url = Pick(@, secondary.detail_url),
          !.image_url = Pick(@, secondary.image_url),
          !.inventory_by_location = Update(@, [k \in invKeys |-> inv[k]]),
          !.extra_fields = Update(@, secondary.extra_fields)]

\* _merge_products that lets a later value replace a value that is not blank
_merge_products_Overwrite(primary, secondary) ==
    LET Pick(cur, inc) == IF Truthy(inc) THEN inc ELSE cur
        inv == secondary.inventory_by_location
        ext == secondary.extra_fields
        invKeys == {k \in DOMAIN inv : Truthy(inv[k])}
        extKeys == {k \in DOMAIN ext :
                       Truthy(ext[k]) \/ k \notin DOMAIN primary.extra_fields}
    IN [primary EXCEPT
          !.item_number =
              IF ~Truthy(primary.item_number) /\ Truthy(secondary.item_number)
              THEN secondary.item_number ELSE @,
          !.model = Pick(@, secondary.model),
          !.description = Pick(@, secondary.description),
          !.stock_status = Pick(@, secondary.stock_status),
          !.detail_url = Pick(@, secondary.detail_url),
          !.image_url = Pick(@, secondary.image_url),
          !.inventory_by_location = Update(@, [k \in invKeys |-> inv[k]]),
          !.extra_fields = Update(@, [k \in extKeys |-> ext[k]])]

_merge_products(primary, secondary) ==
    LET Blank(v) == ~Truthy(v) \/ Strip(v) = <<>>
        Pick(cur, inc) == IF Blank(cur) /\ Truthy(inc) THEN inc ELSE cur
        inv == secondary.inventory_by_location
        ext == secondary.extra_fields
        invKeys == {k \in DOMAIN inv : Truthy(inv[k])}
        extKeys == {k \in DOMAIN ext :
                       Truthy(ext[k]) \/ k \notin DOMAIN primary.extra_fields}
    IN [primary EXCEPT
          !.item_number =
              IF ~Truthy(primary.item_number) /\ Truthy(secondary.item_number)
              THEN secondary.item_number ELSE @,
          !.model = Pick(@, secondary.model),
          !.description = Pick(@, secondary.description),
          !.stock_status = Pick(@, secondary.stock_status),
          !.detail_url = Pick(@, secondary.detail_url),
          !.image_url = Pick(@, secondary.image_url),
          !.inventory_by_location = Update(@, [k \in invKeys |-> inv[k]]),
          !.extra_fields = Update(@, [k \in extKeys |-> ext[k]])]

(***************************************************************************)
(* Markup of the pages the parser is run on                                *)
(***************************************************************************)
S_I1 == <<"I","1">>
S_I2 == <<"I","2">>
S_I3 == <<"I","3">>
S_8 == <<"$","8">>
S_12 == <<"$","1","2">>
Line_Model1 == <<"M","o","d","e","l",":"," ","M","1">>
Line_Model2 == <<"M","O","D","E","L",":"," ","M","2">>
Line_Dealer9 == <<"D","e","a","l","e","r",":"," ","$","9">>
Line_DealerLogin == <<"D","e","a","l","e","r",":"," ","L","O","G"," ","I","N">>
Line_DealerBare == <<"D","e","a","l","e","r",":">>
Line_Price4 == <<"P","r","i","c","e",":"," ","$","4">>
Line_Note == <<"N","o","t","e">>
Line_LoginToSee ==
    <<"L","o","g"," ","i","n"," ","t","o"," ","s","e","e"," ",
      "p","r","i","c","i","n","g">>
Text_LogIn == <<"L","o","g"," ","I","n">>
NoAttrs == <<None, None, None, None>>

Col(col6, prices, paras) == [col6 |-> col6, prices |-> prices, paras |-> paras]
Para(text) == [bold |-> FALSE, text |-> text]
Bold(text) == [bold |-> TRUE, text |-> text]
PriceElem(attrs, text) == [attrs |-> attrs, text |-> text]

BlankCard ==
    [selected |-> TRUE, formValue |-> None, dataItem |-> None, href |-> None,
     imgSrc |-> None, badges |-> <<>>, tables |-> <<>>, cols |-> <<>>]

\* first card of test_parse_manufacturer_products_deduplicates_and_merges
CardDealer ==
    [BlankCard EXCEPT
       !.formValue = S_I1,
       !.cols = << Col(TRUE, <<>>, << Bold(<<"F">>), Para(Line_Model1),
                                      Para(Line_Dealer9) >>) >>,
       !.tables = << << << <<"R",":">>, <<"5">> >> >> >>]

\* second card of the same test
CardPrice ==
    [BlankCard EXCEPT
       !.formValue = S_I1,
       !.cols = << Col(TRUE, << PriceElem(NoAttrs, S_8) >>, <<>>) >>,
       !.tables = << << << <<"C",":">>, <<"2">> >> >> >>]

\* third card of the same test, with a second price-like line
CardFields ==
    [BlankCard EXCEPT
       !.formValue = S_I2,
       !.cols = << Col(TRUE, <<>>, << Para(Line_Model2), Para(Line_Price4),
                                      Para(Line_Dealer9) >>) >>]

\* a card of a session that is not logged in
CardLogin ==
    [BlankCard EXCEPT
       !.formValue = S_I1,
       !.cols = << Col(TRUE, << PriceElem(NoAttrs, Text_LogIn) >>,
                       << Para(Line_DealerLogin), Para(Line_LoginToSee) >>) >>,
       !.tables = << << << <<"R",":">>, <<>> >> >> >>]

\* a card with labels that carry no value
CardBare ==
    [BlankCard EXCEPT
       !.formValue = <<" ","I","1"," ">>,
       !.badges = << <<"I","N">> >>,
       !.cols = << Col(TRUE, <<>>, << Para(Line_DealerBare), Para(Line_Note) >>) >>,
       !.tables = << << << <<"C",":">>, <<>> >>, << <<"X">> >> >> >>]

\* a layout placeholder: an image and nothing else
CardPlaceholder ==
    [BlankCard EXCEPT !.imgSrc = <<"/", "wce/thumbnails/", "p">>]

\* a description and nothing to key it by
CardDescOnly ==
    [BlankCard EXCEPT !.cols = << Col(FALSE, <<>>, << Bold(<<"W">>) >>) >>]

\* a card keyed by its detail link: the value attribute of its form is empty
CardAnchor ==
    [BlankCard EXCEPT
       !.formValue = <<>>,
       !.href = <<ItemSearchHead>> \o S_I3 \o <<ItemSearchTail>>,
       !.imgSrc = <<"/", "wce/thumbnails/", "e">>,
       !.cols = << Col(FALSE, <<>>, << Bold(<<"W">>) >>) >>]

\* the item number on the "more info" button, a detail link of its own, the
\* price in an attribute
CardButton ==
    [BlankCard EXCEPT
       !.dataItem = S_I1,
       !.href = <<ItemSearchHead>> \o S_I1 \o <<"&page=products">>,
       !.cols = << Col(TRUE, << PriceElem(<<S_12, None, None, None>>, <<>>) >>,
                       << Para(Line_Dealer9) >>) >>,
       !.tables = << << << <<"R",":">>, <<"7">> >> >> >>]

\* the first card as the older layout renders it: the div lacks classes of
\* the listing selector
CardLegacyDealer == [CardDealer EXCEPT !.selected = FALSE]

CardPool ==
    {CardDealer, CardPrice, CardFields, CardLogin, CardBare, CardPlaceholder,
     CardDescOnly, CardAnchor, CardButton, CardLegacyDealer}

RECURSIVE SeqsUpTo(_, _)
SeqsUpTo(S, n) ==
    IF n = 0 THEN { <<>> }
    ELSE LET shorter == SeqsUpTo(S, n - 1)
         IN shorter \cup {Append(q, x) : q \in shorter, x \in S}

Pages == SeqsUpTo(CardPool, MaxCards)

Manufacturers == { <<"E","x">> }

BaseUrls == { <<"https://mirror.example", "/", "catalog">> }

\* iteration orders of the set _PRICE_FIELD_KEYS: the relative order of the
\* two labels the pages use
HashOrders ==
    { <<Label_Dealer, Label_Price, Label_YourPrice, Label_SalePrice,
        Label_SpecialPrice>>,
      <<Label_SpecialPrice, Label_SalePrice, Label_YourPrice, Label_Price,
        Label_Dealer>> }

Labels ==
    SeqsUpTo({"a", "B", "1", " ", "_", "-"}, MaxLabelLen)

(***************************************************************************)
(* State                                                                   *)
(***************************************************************************)
VARIABLES
    html,           \* the markup: the sequence of card divs of the page
    manufacturer,   \* argument of parse_manufacturer_products
    base_url_arg,   \* argument base_url (None when not given)
    hash_order,     \* iteration order of _PRICE_FIELD_KEYS in this process
    pc,             \* "start", "loop", "done"; "slug*" for slugify_key
    base_url,       \* local base_url after line 36
    cards,          \* the selected cards not yet visited by the loop
    products,       \* dict key -> [product, from_fields]
    key_order,      \* insertion order of the keys of products
    unmatched,      \* list of products without a key
    iter,           \* locals of the last loop iteration (<<>> before the first)
    result,         \* the returned list (<<>> until the return)
    value,          \* argument of slugify_key
    slug,           \* slugify_key(value)
    reslug,         \* slugify_key(slug)
    flat_self,      \* the Product as_flat_dict is called on
    flat,           \* the dictionary as_flat_dict returned
    client,         \* the attributes of the Century21Client instance
    requests,       \* the requests the client's session has sent, in order
    calls,          \* the calls made on the client: method and exception
    manufacturers,  \* argument of collect_manufacturer_rows
    pages,          \* the markup the collector's client returns per manufacturer
    pending,        \* the manufacturers the collector's loop has not visited
    result_rows,    \* result.rows
    empty_manufacturers  \* result.empty_manufacturers

vars ==
    <<html, manufacturer, base_url_arg, hash_order, pc, base_url, cards,
      products, key_order, unmatched, iter, result, value, slug, reslug,
      flat_self, flat, client, requests, calls, manufacturers, pages, pending,
      result_rows, empty_manufacturers>>

parserVars ==
    <<html, manufacturer, base_url_arg, hash_order, base_url, cards,
      products, key_order, unmatched, iter, result>>

slugVars == <<value, slug, reslug>>

flatVars == <<flat_self, flat>>

clientVars == <<client, requests, calls>>

collectorVars ==
    <<manufacturers, pages, pending, result_rows, empty_manufacturers>>

nonParserVars == <<slugVars, flatVars, clientVars, collectorVars>>

nonSlugVars == <<parserVars, flatVars, clientVars, collectorVars>>

(***************************************************************************)
(* parse_manufacturer_products                                             *)
(***************************************************************************)
\* soup.select("div.col.d-flex.flex-column.border.rounded.px-3.py-3")
SelectCards(page) == SelectSeq(page, LAMBDA card : card.selected)

\* lines 38-66: the Product of one card and its price_from_fields flag
CardProduct(card, mfr, base, order) ==
    LET item_number == _extract_item_number(card)
        extra_fields == _extract_extra_fields(card)
        extracted == _extract_price(card)
        derived_price ==
            IF Truthy(extracted) THEN None
            ELSE _derive_price_from_fields(extra_fields, order)
        from_fields == ~Truthy(extracted) /\ Truthy(derived_price)
    IN [product |->
           [manufacturer |-> mfr,
            item_number |-> item_number,
            model |-> _extract_model(card),
            description |-> _extract_description(card),
            price_text |-> IF from_fields THEN derived_price ELSE extracted,
            stock_status |-> _extract_stock(card),
            inventory_by_location |-> _extract_inventory(card),
            detail_url |-> _extract_detail_url(card, item_number, base),
            image_url |-> _extract_image_url(card, base),
            extra_fields |-> extra_fields],
        price_from_fields |-> from_fields]

\* key = detail_url
KeyOf_DetailUrlOnly(product) == product.detail_url

\* key = item_number
KeyOf_ItemNumberOnly(product) == product.item_number

\* key = item_number or detail_url
KeyOf(product) ==
    IF Truthy(product.item_number) THEN product.item_number
    ELSE product.detail_url

\* the price precedence without the branch of line 85
MergePrice_NoOutrank(existing, existing_from_fields, product, price_from_fields) ==
    LET incoming_price == product.price_text
        incoming_is_login == Truthy(incoming_price) /\ IsLogin(incoming_price)
    IN IF /\ Truthy(incoming_price)
          /\ ~Truthy(existing.price_text) \/ IsLogin(existing.price_text)
          /\ ~incoming_is_login
       THEN [product |-> [existing EXCEPT !.price_text = incoming_price],
             from_fields |-> price_from_fields]
       ELSE [product |-> existing, from_fields |-> existing_from_fields]

\* the price precedence as "the last card with a price wins"
MergePrice_LastWins(existing, existing_from_fields, product, price_from_fields) ==
    IF Truthy(product.price_text)
    THEN [product |-> [existing EXCEPT !.price_text = product.price_text],
          from_fields |-> price_from_fields]
    ELSE [product |-> existing, from_fields |-> existing_from_fields]

\* the price precedence without line 84: the flag is not updated on adoption
MergePrice_KeepFlag(existing, existing_from_fields, product, price_from_fields) ==
    LET incoming_price == product.price_text
        incoming_is_login == Truthy(incoming_price) /\ IsLogin(incoming_price)
    IN IF ~Truthy(incoming_price)
       THEN [product |-> existing, from_fields |-> existing_from_fields]
       ELSE IF ~Truthy(existing.price_text) \/ IsLogin(existing.price_text)
       THEN IF ~incoming_is_login
            THEN [product |-> [existing EXCEPT !.price_text = incoming_price],
                  from_fields |-> existing_from_fields]
            ELSE [product |-> existing, from_fields |-> existing_from_fields]
       ELSE IF existing_from_fields /\ ~price_from_fields /\ ~incoming_is_login
       THEN [product |-> [existing EXCEPT !.price_text = incoming_price],
             from_fields |-> FALSE]
       ELSE [product |-> existing, from_fields |-> existing_from_fields]

\* lines 74-87: the price of the keyed product after a card with its key
\* the price precedence with line 85 as "elif not price_from_fields and not
\* incoming_is_login"
MergePrice_DedicatedAlwaysWins(existing, existing_from_fields, product, price_from_fields) ==
    LET incoming_price == product.price_text
        incoming_is_login == Truthy(incoming_price) /\ IsLogin(incoming_price)
    IN IF ~Truthy(incoming_price)
       THEN [product |-> existing, from_fields |-> existing_from_fields]
       ELSE IF (~Truthy(existing.price_text) \/ IsLogin(existing.price_text))
               /\ ~incoming_is_login
       THEN [product |-> [existing EXCEPT !.price_text = incoming_price],
             from_fields |-> price_from_fields]
       ELSE IF ~price_from_fields /\ ~incoming_is_login
       THEN [product |-> [existing EXCEPT !.price_text = incoming_price],
             from_fields |-> FALSE]
       ELSE [product |-> existing, from_fields |-> existing_from_fields]

MergePrice(existing, existing_from_fields, product, price_from_fields) ==
    LET incoming_price == product.price_text
        incoming_is_login == Truthy(incoming_price) /\ IsLogin(incoming_price)
    IN IF ~Truthy(incoming_price)
       THEN [product |-> existing, from_fields |-> existing_from_fields]
       ELSE IF ~Truthy(existing.price_text) \/ IsLogin(existing.price_text)
       THEN IF ~incoming_is_login
            THEN [product |-> [existing EXCEPT !.price_text = incoming_price],
                  from_fields |-> price_from_fields]
            ELSE [product |-> existing, from_fields |-> existing_from_fields]
       ELSE IF existing_from_fields /\ ~price_from_fields /\ ~incoming_is_login
       THEN [product |-> [existing EXCEPT !.price_text = incoming_price],
             from_fields |-> FALSE]
       ELSE [product |-> existing, from_fields |-> existing_from_fields]

\* unmatched + [entry[0] for entry in products.values()]
ResultList_UnmatchedFirst(prods, order, loose) ==
    loose \o [i \in 1..Len(order) |-> prods[order[i]].product]

\* [entry[0] for entry in products.values()] + unmatched
ResultList(prods, order, loose) ==
    [i \in 1..Len(order) |-> prods[order[i]].product] \o loose

\* lines 67-93: the keyed map, its key order and the unmatched list after
\* the loop body has handled the card product cp
LoopBody(prods, order, loose, cp) ==
    LET key == KeyOf(cp.product)
    IN IF Truthy(key)
       THEN IF key \in DOMAIN prods
            THEN LET merged == _merge_products(prods[key].product, cp.product)
                     updated == MergePrice(merged, prods[key].from_fields,
                                           cp.product, cp.price_from_fields)
                 IN [products |-> [prods EXCEPT ![key] = updated],
                     key_order |-> order,
                     unmatched |-> loose]
            ELSE [products |->
                      Update(prods,
                             (key :> [product |-> cp.product,
                                      from_fields |-> cp.price_from_fields])),
                  key_order |-> Append(order, key),
                  unmatched |-> loose]
       ELSE [products |-> prods,
             key_order |-> order,
             unmatched |-> Append(loose, cp.product)]

\* the whole function on one page
RECURSIVE ParseCards(_, _, _, _, _)
ParseCards(todo, st, mfr, base, order) ==
    IF todo = <<>> THEN ResultList(st.products, st.key_order, st.unmatched)
    ELSE ParseCards(Tail(todo),
                    LoopBody(st.products, st.key_order, st.unmatched,
                             CardProduct(Head(todo), mfr, base, order)),
                    mfr, base, order)

ParsePage(page, mfr, base_arg, order) ==
    ParseCards(SelectCards(page),
               [products |-> EmptyDict, key_order |-> <<>>, unmatched |-> <<>>],
               mfr, NormBase(base_arg), order)

Idle ==
    /\ html = <<>>
    /\ manufacturer = <<>>
    /\ base_url_arg = None
    /\ hash_order = <<>>
    /\ base_url = None
    /\ cards = <<>>
    /\ products = EmptyDict
    /\ key_order = <<>>
    /\ unmatched = <<>>
    /\ iter = <<>>
    /\ result = <<>>

SlugIdle ==
    /\ value = <<>>
    /\ slug = None
    /\ reslug = None

FlatIdle ==
    /\ flat_self = <<>>
    /\ flat = EmptyDict

ClientIdle ==
    /\ client = <<>>
    /\ requests = <<>>
    /\ calls = <<>>

CollectorIdle ==
    /\ manufacturers = <<>>
    /\ pages = EmptyDict
    /\ pending = <<>>
    /\ result_rows = <<>>
    /\ empty_manufacturers = <<>>

Init ==
    /\ html \in Pages
    /\ manufacturer \in Manufacturers
    /\ base_url_arg \in BaseUrls
    /\ hash_order \in HashOrders
    /\ pc = "start"
    /\ base_url = None
    /\ cards = <<>>
    /\ products = EmptyDict
    /\ key_order = <<>>
    /\ unmatched = <<>>
    /\ iter = <<>>
    /\ result = <<>>
    /\ SlugIdle
    /\ FlatIdle
    /\ ClientIdle
    /\ CollectorIdle

\* lines 31-36
Select ==
    /\ pc = "start"
    /\ cards' = SelectCards(html)
    /\ base_url' = NormBase(base_url_arg)
    /\ pc' = "loop"
    /\ UNCHANGED <<html, manufacturer, base_url_arg, hash_order, products,
                   key_order, unmatched, iter, result>>
    /\ UNCHANGED nonParserVars

\* One iteration of the loop (lines 37-93) is one step, named by the branch it
\* takes.  iter keeps the iteration's locals and, in before, the entry of
\* products that the merge then changes in place.

\* the card's key is already in products (lines 70-89)
MergeCard ==
    /\ pc = "loop"
    /\ cards # <<>>
    /\ LET cp == CardProduct(Head(cards), manufacturer, base_url, hash_order)
           key == KeyOf(cp.product)
           after == LoopBody(products, key_order, unmatched, cp)
       IN /\ Truthy(key) /\ key \in DOMAIN products
          /\ products' = after.products
          /\ key_order' = after.key_order
          /\ unmatched' = after.unmatched
          /\ iter' = << [branch |-> "merge", key |-> key,
                         product |-> cp.product,
                         price_from_fields |-> cp.price_from_fields,
                         before |-> << products[key] >>] >>
    /\ cards' = Tail(cards)
    /\ UNCHANGED <<html, manufacturer, base_url_arg, hash_order, pc, base_url,
                   result>>
    /\ UNCHANGED nonParserVars

\* the card has a new key (lines 90-91)
InsertCard ==
    /\ pc = "loop"
    /\ cards # <<>>
    /\ LET cp == CardProduct(Head(cards), manufacturer, base_url, hash_order)
           key == KeyOf(cp.product)
           after == LoopBody(products, key_order, unmatched, cp)
       IN /\ Truthy(key) /\ key \notin DOMAIN products
          /\ products' = after.products
          /\ key_order' = after.key_order
          /\ unmatched' = after.unmatched
          /\ iter' = << [branch |-> "insert", key |-> key,
                         product |-> cp.product,
                         price_from_fields |-> cp.price_from_fields,
                         before |-> <<>>] >>
    /\ cards' = Tail(cards)
    /\ UNCHANGED <<html, manufacturer, base_url_arg, hash_order, pc, base_url,
                   result>>
    /\ UNCHANGED nonParserVars

\* the card has no key (lines 92-93)
AppendUnmatched ==
    /\ pc = "loop"
    /\ cards # <<>>
    /\ LET cp == CardProduct(Head(cards), manufacturer, base_url, hash_order)
           key == KeyOf(cp.product)
           after == LoopBody(products, key_order, unmatched, cp)
       IN /\ ~Truthy(key)
          /\ products' = after.products
          /\ key_order' = after.key_order
          /\ unmatched' = after.unmatched
          /\ iter' = << [branch |-> "unmatched", key |-> key,
                         product |-> cp.product,
                         price_from_fields |-> cp.price_from_fields,
                         before |-> <<>>] >>
    /\ cards' = Tail(cards)
    /\ UNCHANGED <<html, manufacturer, base_url_arg, hash_order, pc, base_url,
                   result>>
    /\ UNCHANGED nonParserVars

\* line 95
Return ==
    /\ pc = "loop"
    /\ cards = <<>>
    /\ result' = ResultList(products, key_order, unmatched)
    /\ pc' = "done"
    /\ UNCHANGED <<html, manufacturer, base_url_arg, hash_order, base_url,
                   cards, products, key_order, unmatched, iter>>
    /\ UNCHANGED nonParserVars

Next == Select \/ MergeCard \/ InsertCard \/ AppendUnmatched \/ Return

Spec == Init /\ [][Next]_vars

(***************************************************************************)
(* slugify_key applied to a label and then to its own result               *)
(***************************************************************************)
SlugInit ==
    /\ Idle
    /\ pc = "slug"
    /\ value \in Labels
    /\ slug = None
    /\ reslug = None
    /\ FlatIdle
    /\ ClientIdle
    /\ CollectorIdle

Slugify ==
    /\ pc = "slug"
    /\ slug' = slugify_key(value)
    /\ pc' = "slugged"
    /\ UNCHANGED <<value, reslug>>
    /\ UNCHANGED nonSlugVars

Reslugify ==
    /\ pc = "slugged"
    /\ reslug' = slugify_key(slug)
    /\ pc' = "reslugged"
    /\ UNCHANGED <<value, slug>>
    /\ UNCHANGED nonSlugVars

SlugNext == Slugify \/ Reslugify

SlugSpec == SlugInit /\ [][SlugNext]_vars

(***************************************************************************)
(* models.Product.as_flat_dict                                             *)
(***************************************************************************)
MaxLocations == 2

\* the characters of the keys, in code point order
CodePoints ==
    <<" ", "$", "-", "0", "1", "2", "3", "4", "5", "6", "7", "8", "9", ":">>
        \o UpperChars \o <<"_">> \o LowerChars

Ord(c) == CHOOSE i \in 1..Len(CodePoints) : CodePoints[i] = c

\* a < b for two str
RECURSIVE StrLess(_, _)
StrLess(a, b) ==
    IF b = <<>> THEN FALSE
    ELSE IF a = <<>> THEN TRUE
    ELSE IF Head(a) = Head(b) THEN StrLess(Tail(a), Tail(b))
    ELSE Ord(Head(a)) < Ord(Head(b))

\* the keys of sorted(d.items()), in order
RECURSIVE SortedKeys(_)
SortedKeys(keys) ==
    IF keys = {} THEN <<>>
    ELSE LET first == CHOOSE k \in keys : \A o \in keys \ {k} : StrLess(k, o)
         IN <<first>> \o SortedKeys(keys \ {first})

\* for key, value in sorted(d.items()): base[f"{prefix}{slugify_key(key)}"] = value
RECURSIVE SetSlugged(_, _, _, _)
SetSlugged(base, prefix, keys, d) ==
    IF keys = <<>> THEN base
    ELSE SetSlugged(Update(base, (<<prefix>> \o slugify_key(Head(keys)))
                                     :> d[Head(keys)]),
                    prefix, Tail(keys), d)

\* x or ""
OrEmpty(x) == IF Truthy(x) THEN x ELSE <<>>

\* collected_at.isoformat() of a Product built at the model's one instant
CollectedAt == <<"2024-01-01T00:00:00+00:00">>

as_flat_dict(self) ==
    LET base ==
            (<<"collected_at">> :> CollectedAt)
            @@ (<<"manufacturer">> :> OrEmpty(self.manufacturer))
            @@ (<<"item_number">> :> OrEmpty(self.item_number))
            @@ (<<"model">> :> OrEmpty(self.model))
            @@ (<<"description">> :> OrEmpty(self.description))
            @@ (<<"price_text">> :> OrEmpty(self.price_text))
            @@ (<<"stock_status">> :> OrEmpty(self.stock_status))
            @@ (<<"detail_url">> :> OrEmpty(self.detail_url))
            @@ (<<"image_url">> :> OrEmpty(self.image_url))
        with_inventory ==
            SetSlugged(base, "inventory_",
                       SortedKeys(DOMAIN self.inventory_by_location),
                       self.inventory_by_location)
    IN SetSlugged(with_inventory, "info_",
                  SortedKeys(DOMAIN self.extra_fields), self.extra_fields)

\* branch names and quantities of an inventory table
Locations == { <<"R">>, <<"r">>, <<"C">> }

Quantities == { <<"5">>, <<"7">> }

Inventories ==
    UNION { [keys -> Quantities] :
                keys \in { k \in SUBSET Locations :
                               Cardinality(k) <= MaxLocations } }

ExtraFieldDicts == { EmptyDict, (Label_Dealer :> <<"$","9">>) }

FlatProducts ==
    [manufacturer : Manufacturers,
     item_number : {None, S_I1},
     model : {None},
     description : {<<"F">>},
     price_text : {S_8},
     stock_status : {None},
     inventory_by_location : Inventories,
     detail_url : {None},
     image_url : {None},
     extra_fields : ExtraFieldDicts]

FlatInit ==
    /\ Idle
    /\ SlugIdle
    /\ ClientIdle
    /\ CollectorIdle
    /\ pc = "flat"
    /\ flat_self \in FlatProducts
    /\ flat = EmptyDict

\* lines 57-80
AsFlatDict ==
    /\ pc = "flat"
    /\ flat' = as_flat_dict(flat_self)
    /\ pc' = "flattened"
    /\ UNCHANGED <<flat_self, parserVars, slugVars, clientVars, collectorVars>>

FlatNext == AsFlatDict

FlatSpec == FlatInit /\ [][FlatNext]_vars

(***************************************************************************)
(* client.Century21Client                                                  *)
(*                                                                         *)
(* client.py holds two class statements of this name.  This section models *)
(* the dataclass of lines 28-172: the class with the email and password    *)
(* fields that cli.py and the tests construct, and the one that has        *)
(* _prime_session.  Lines 173-267 are an older class with another          *)
(* constructor signature; it has no counterpart here.                      *)
(***************************************************************************)
MaxCalls == 3

\* timeout: int = 30
timeout == 30

\* the part of the session's requests and of the portal's answers that the
\* client looks at: a request is
\*   [method, url, params, timeout, context, outcome, response_url, json]
\* where outcome is "ok", "http_error" (raise_for_status raises) or
\* "network_error" (the session raises RequestException), response_url is
\* the final URL of the response and json names the message of the login
\* answer.
RedirectedUrl == <<"https://redirected.example.com", "/", "index.cfm">>

Returned == "returned"

\* what the portal can answer to the bootstrap request
BootstrapResponses ==
    { [outcome |-> "ok", redirected |-> FALSE],
      [outcome |-> "ok", redirected |-> TRUE],
      [outcome |-> "http_error", redirected |-> FALSE],
      [outcome |-> "network_error", redirected |-> FALSE] }

\* what the portal can answer to a page request
PageResponses == {"ok", "http_error", "network_error"}

\* what the portal can answer to the login request
LoginResponses ==
    { [outcome |-> "ok", json |-> "SUCCESSMESSAGE"],
      [outcome |-> "ok", json |-> "ERRORMESSAGE"],
      [outcome |-> "ok", json |-> "neither"],
      [outcome |-> "http_error", json |-> "neither"],
      [outcome |-> "network_error", json |-> "neither"] }

\* lines 32-57: the instance after __post_init__
Century21Client(email, password, base_url_) ==
    LET url == IF base_url_[Len(base_url_)] = "/" THEN base_url_
               ELSE base_url_ \o <<"/">>
    IN [email |-> Strip(email),
        password |-> Strip(password),
        base_url |-> url,
        timeout |-> timeout,
        Referer |-> url,
        _primed |-> FALSE]

\* lines 137-138
_url(self, path) == urljoin(self.base_url, path)

ResponseUrl(self, response) ==
    IF response.redirected THEN RedirectedUrl ELSE self.base_url

\* an outcome of a method: the instance, the requests sent, the exception
Outcome(self, sent, exc) == [client |-> self, requests |-> sent, exc |-> exc]

\* _prime_session that sends the bootstrap request on every call
_prime_session_NoGuard(self, sent, response) ==
    LET request == [method |-> "GET", url |-> self.base_url, params |-> <<>>,
                    timeout |-> self.timeout, context |-> "session bootstrap",
                    outcome |-> response.outcome,
                    response_url |-> ResponseUrl(self, response),
                    json |-> "neither"]
    IN IF response.outcome # "ok"
       THEN Outcome(self, Append(sent, request), "RequestFailed")
       ELSE Outcome([self EXCEPT !._primed = TRUE], Append(sent, request),
                    Returned)

\* lines 140-149
_prime_session(self, sent, response) ==
    IF self._primed THEN Outcome(self, sent, Returned)
    ELSE LET request ==
                 [method |-> "GET", url |-> self.base_url, params |-> <<>>,
                  timeout |-> self.timeout, context |-> "session bootstrap",
                  outcome |-> response.outcome,
                  response_url |-> ResponseUrl(self, response),
                  json |-> "neither"]
         IN IF response.outcome # "ok"
            THEN Outcome(self, Append(sent, request), "RequestFailed")
            ELSE Outcome([self EXCEPT !._primed = TRUE],
                         Append(sent, request), Returned)

\* login that primes the session before it looks at the credentials
login_PrimeFirst(self, sent, bootstrap, response) ==
    LET primed == _prime_session(self, sent, bootstrap)
    IN IF primed.exc # Returned THEN primed
       ELSE IF ~Truthy(self.email) \/ ~Truthy(self.password)
       THEN Outcome(primed.client, primed.requests, "AuthenticationError")
       ELSE Outcome(primed.client, primed.requests, Returned)

\* lines 62-90
login(self, sent, bootstrap, response) ==
    IF ~Truthy(self.email) \/ ~Truthy(self.password)
    THEN Outcome(self, sent, "AuthenticationError")
    ELSE LET primed == _prime_session(self, sent, bootstrap)
             request ==
                 [method |-> "POST",
                  url |-> _url(primed.client, <<"generalActions.cfm">>),
                  params |-> << <<"Action", <<"SignIn">> >>,
                                <<"email", self.email>>,
                                <<"passwd", self.password>> >>,
                  timeout |-> self.timeout, context |-> "login request",
                  outcome |-> response.outcome,
                  response_url |-> _url(primed.client, <<"generalActions.cfm">>),
                  json |-> response.json]
         IN IF primed.exc # Returned THEN primed
            ELSE Outcome(primed.client, Append(primed.requests, request),
                         IF response.outcome # "ok" THEN "RequestFailed"
                         ELSE IF response.json = "SUCCESSMESSAGE" THEN Returned
                         ELSE "AuthenticationError")

\* the common shape of lines 92-132: prime, then one GET
PageRequest(self, sent, bootstrap, response, path, params, context) ==
    LET primed == _prime_session(self, sent, bootstrap)
        request ==
            [method |-> "GET", url |-> _url(primed.client, path),
             params |-> params, timeout |-> self.timeout,
             context |-> context, outcome |-> response,
             response_url |-> _url(primed.client, path), json |-> "neither"]
    IN IF primed.exc # Returned THEN primed
       ELSE Outcome(primed.client, Append(primed.requests, request),
                    IF response # "ok" THEN "RequestFailed" ELSE Returned)

\* lines 92-104
fetch_manufacturer_page(self, sent, bootstrap, response, mfr) ==
    PageRequest(self, sent, bootstrap, response, <<"default.cfm">>,
                << <<"pagelink", <<"manufacturer">> >>,
                   <<"pagelink1", mfr>>, <<"logo", <<"Y">> >> >>,
                "fetching manufacturer page")

\* lines 106-118
fetch_item_page(self, sent, bootstrap, response, item_code) ==
    PageRequest(self, sent, bootstrap, response, <<"default.cfm">>,
                << <<"itemsearch", item_code>>,
                   <<"page", <<"products">> >>,
                   <<"searchcode", <<"N">> >> >>,
                "fetching item page")

\* lines 120-132
download_price_sheet(self, sent, bootstrap, response, mfr) ==
    PageRequest(self, sent, bootstrap, response, <<"priceSheetPDF.cfm">>,
                << <<"manufacturer", mfr>> >>,
                "downloading price sheet")

\* constructor arguments
Emails == { <<"u">>, <<" ", "u", " ">>, <<" ", " ">> }

Passwords == { <<"p">>, <<>> }

ClientBaseUrls == { DEFAULT_BASE_URL, <<"https://21stcenturydist.com">> }

ItemCodes == { S_I1 }

ClientInit ==
    /\ Idle
    /\ SlugIdle
    /\ FlatIdle
    /\ CollectorIdle
    /\ pc = "client"
    /\ \E email \in Emails, password \in Passwords, url \in ClientBaseUrls :
           client = Century21Client(email, password, url)
    /\ requests = <<>>
    /\ calls = <<>>

Called(method, outcome) ==
    /\ client' = outcome.client
    /\ requests' = outcome.requests
    /\ calls' = Append(calls, [method |-> method, exc |-> outcome.exc])
    /\ UNCHANGED <<pc, parserVars, slugVars, flatVars, collectorVars>>

Login ==
    /\ pc = "client"
    /\ Len(calls) < MaxCalls
    /\ \E bootstrap \in BootstrapResponses, response \in LoginResponses :
           Called("login", login(client, requests, bootstrap, response))

FetchManufacturerPage ==
    /\ pc = "client"
    /\ Len(calls) < MaxCalls
    /\ \E bootstrap \in BootstrapResponses, response \in PageResponses,
          mfr \in Manufacturers :
           Called("fetch_manufacturer_page",
                  fetch_manufacturer_page(client, requests, bootstrap,
                                          response, mfr))

FetchItemPage ==
    /\ pc = "client"
    /\ Len(calls) < MaxCalls
    /\ \E bootstrap \in BootstrapResponses, response \in PageResponses,
          item_code \in ItemCodes :
           Called("fetch_item_page",
                  fetch_item_page(client, requests, bootstrap, response,
                                  item_code))

DownloadPriceSheet ==
    /\ pc = "client"
    /\ Len(calls) < MaxCalls
    /\ \E bootstrap \in BootstrapResponses, response \in PageResponses,
          mfr \in Manufacturers :
           Called("download_price_sheet",
                  download_price_sheet(client, requests, bootstrap, response,
                                       mfr))

ClientNext ==
    Login \/ FetchManufacturerPage \/ FetchItemPage \/ DownloadPriceSheet

ClientSpec == ClientInit /\ [][ClientNext]_vars

(***************************************************************************)
(* collector.collect_manufacturer_rows                                     *)
(*                                                                         *)
(* The client is any object with fetch_manufacturer_page and base_url, as  *)
(* the DummyClient of test_collector.py: pages is the markup it returns    *)
(* per manufacturer.  The parser and Product are those of the sections     *)
(* above.                                                                  *)
(***************************************************************************)
MaxManufacturers == 2

CollectorManufacturers == { <<"E","x">>, <<"M","i">> }

CollectorPages ==
    { <<>>,
      <<CardLegacyDealer>>,
      <<CardFields>>,
      <<CardDealer, CardPrice>>,
      <<CardPlaceholder, CardFields>> }

\* lines 21-25, for a client whose fetch returns html
collect_manufacturer_products(html_, mfr, order) ==
    ParsePage(html_, mfr, DEFAULT_BASE_URL, order)

\* product.as_flat_dict() for product in products
FlatRows(prods) == [i \in 1..Len(prods) |-> as_flat_dict(prods[i])]

\* the loop body with one row per manufacturer
CollectOne_FirstProductOnly(res, mfr, prods) ==
    IF prods = <<>>
    THEN [rows |-> res.rows,
          empty_manufacturers |-> Append(res.empty_manufacturers, mfr)]
    ELSE [rows |-> Append(res.rows, as_flat_dict(prods[1])),
          empty_manufacturers |-> res.empty_manufacturers]

\* lines 33-37: the loop body for one manufacturer
CollectOne(res, mfr, prods) ==
    IF prods = <<>>
    THEN [rows |-> res.rows,
          empty_manufacturers |-> Append(res.empty_manufacturers, mfr)]
    ELSE [rows |-> res.rows \o FlatRows(prods),
          empty_manufacturers |-> res.empty_manufacturers]

CollectorInit ==
    /\ SlugIdle
    /\ FlatIdle
    /\ ClientIdle
    /\ html = <<>>
    /\ manufacturer = <<>>
    /\ base_url_arg = None
    /\ base_url = None
    /\ cards = <<>>
    /\ products = EmptyDict
    /\ key_order = <<>>
    /\ unmatched = <<>>
    /\ iter = <<>>
    /\ result = <<>>
    /\ hash_order \in HashOrders
    /\ pc = "collect"
    /\ manufacturers \in SeqsUpTo(CollectorManufacturers, MaxManufacturers)
    /\ pages \in [CollectorManufacturers -> CollectorPages]
    /\ pending = manufacturers
    /\ result_rows = <<>>
    /\ empty_manufacturers = <<>>

\* lines 32-36: the manufacturer's page has no product
CollectEmpty ==
    /\ pc = "collect"
    /\ pending # <<>>
    /\ LET mfr == Head(pending)
           prods == collect_manufacturer_products(pages[mfr], mfr, hash_order)
           res == CollectOne([rows |-> result_rows,
                              empty_manufacturers |-> empty_manufacturers],
                             mfr, prods)
       IN /\ prods = <<>>
          /\ result_rows' = res.rows
          /\ empty_manufacturers' = res.empty_manufacturers
    /\ pending' = Tail(pending)
    /\ UNCHANGED <<pc, manufacturers, pages, parserVars, slugVars, flatVars,
                   clientVars>>

\* lines 32-37: the manufacturer's page has products
CollectRows ==
    /\ pc = "collect"
    /\ pending # <<>>
    /\ LET mfr == Head(pending)
           prods == collect_manufacturer_products(pages[mfr], mfr, hash_order)
           res == CollectOne([rows |-> result_rows,
                              empty_manufacturers |-> empty_manufacturers],
                             mfr, prods)
       IN /\ prods # <<>>
          /\ result_rows' = res.rows
          /\ empty_manufacturers' = res.empty_manufacturers
    /\ pending' = Tail(pending)
    /\ UNCHANGED <<pc, manufacturers, pages, parserVars, slugVars, flatVars,
                   clientVars>>

\* line 24: fetch_manufacturer_page raises, and so does the collector
CollectRaise ==
    /\ pc = "collect"
    /\ pending # <<>>
    /\ pc' = "collect_raised"
    /\ UNCHANGED <<collectorVars, parserVars, slugVars, flatVars, clientVars>>

\* line 38
CollectReturn ==
    /\ pc = "collect"
    /\ pending = <<>>
    /\ pc' = "collected"
    /\ UNCHANGED <<collectorVars, parserVars, slugVars, flatVars, clientVars>>

CollectorNext == CollectEmpty \/ CollectRows \/ CollectRaise \/ CollectReturn

CollectorSpec == CollectorInit /\ [][CollectorNext]_vars

(***************************************************************************)
(* Vocabulary of the properties                                            *)
(***************************************************************************)
\* the last loop iteration merged its card into an existing keyed product
Merged == iter # <<>> /\ iter[1].branch = "merge"

\* the keyed product and its field-derived flag before and after that merge,
\* and the card's own product and flag
Before == iter[1].before[1]
After == products[iter[1].key]
Incoming == iter[1].product
IncomingFromFields == iter[1].price_from_fields

RealPrice(p) == Truthy(p) /\ ~IsLogin(p)

Selected == SelectCards(html)

CardProductAt(i) ==
    CardProduct(Selected[i], manufacturer, NormBase(base_url_arg), hash_order)

CardKeyAt(i) == KeyOf(CardProductAt(i).product)

Finished == pc = "done"

(***************************************************************************)
(* C1: when parse_manufacturer_products has returned, no two entries of    *)
(* the returned list have the same non-empty item_number, and every        *)
(* non-empty item_number found on a card of the page is the item_number of *)
(* exactly one entry.                                                      *)
(***************************************************************************)
C1_UniqueItemNumber ==
    Finished =>
        /\ \A i, j \in 1..Len(result) :
               (i # j /\ Truthy(result[i].item_number))
                   => result[i].item_number # result[j].item_number
        /\ \A c \in 1..Len(Selected) :
               LET n == _extract_item_number(Selected[c])
               IN Truthy(n) =>
                      Cardinality({i \in 1..Len(result) :
                                       result[i].item_number = n}) = 1

C1_Witness ==
    /\ Finished
    /\ \E a, b \in 1..Len(Selected) :
           /\ a < b
           /\ Truthy(_extract_item_number(Selected[a]))
           /\ _extract_item_number(Selected[a]) = _extract_item_number(Selected[b])
           /\ Selected[a] # Selected[b]

(***************************************************************************)
(* C2: after a merge in which the keyed product's price was field-derived  *)
(* and the card's price comes from its dedicated price element and is not  *)
(* a login sentinel, the product's price_text is the card's price and the  *)
(* product is no longer marked field-derived.                              *)
(***************************************************************************)
C2_DedicatedOutranksFieldDerived ==
    (/\ Merged
     /\ Before.from_fields
     /\ ~IncomingFromFields
     /\ RealPrice(Incoming.price_text))
        => /\ After.product.price_text = Incoming.price_text
           /\ ~After.from_fields

C2_Witness ==
    /\ Merged
    /\ Before.from_fields
    /\ RealPrice(Before.product.price_text)
    /\ ~IncomingFromFields
    /\ RealPrice(Incoming.price_text)
    /\ Before.product.price_text # Incoming.price_text

(***************************************************************************)
(* C3: after a merge in which the keyed product held a real price          *)
(* (non-empty, not a login sentinel) and the card's price is empty or a    *)
(* login sentinel, price_text is what it was before the merge.             *)
(***************************************************************************)
C3_PriceNeverRegresses ==
    (/\ Merged
     /\ RealPrice(Before.product.price_text)
     /\ ~RealPrice(Incoming.price_text))
        => After.product.price_text = Before.product.price_text

C3_Witness ==
    /\ Merged
    /\ RealPrice(Before.product.price_text)
    /\ Truthy(Incoming.price_text)
    /\ IsLogin(Incoming.price_text)

(***************************************************************************)
(* C4: after a merge in which the keyed product had no usable price (empty *)
(* or a login sentinel) and the card's price is non-empty and not a login  *)
(* sentinel, the product has the card's price and its field-derived flag   *)
(* is the card's.                                                          *)
(***************************************************************************)
C4_AdoptWhenNoUsablePrice ==
    (/\ Merged
     /\ ~RealPrice(Before.product.price_text)
     /\ RealPrice(Incoming.price_text))
        => /\ After.product.price_text = Incoming.price_text
           /\ After.from_fields = IncomingFromFields

C4_Witness ==
    /\ Merged
    /\ ~RealPrice(Before.product.price_text)
    /\ RealPrice(Incoming.price_text)
    /\ IncomingFromFields
    /\ ~Before.from_fields

(***************************************************************************)
(* C5: after a merge, inventory_by_location has every location of the      *)
(* keyed product and of the card; a location of both has the card's value  *)
(* when that is non-empty and the product's earlier value otherwise.       *)
(***************************************************************************)
C5_InventoryUnion ==
    Merged =>
        LET old == Before.product.inventory_by_location
            inc == Incoming.inventory_by_location
            new == After.product.inventory_by_location
        IN /\ DOMAIN new = DOMAIN old \cup DOMAIN inc
           /\ \A k \in DOMAIN old \cap DOMAIN inc :
                  new[k] = IF Truthy(inc[k]) THEN inc[k] ELSE old[k]

(***************************************************************************)
(* C6: after a merge, extra_fields has every key of the keyed product and  *)
(* of the card; a key of both has the card's value when that is non-empty  *)
(* and the product's earlier value otherwise, a key of one has that one's  *)
(* value.                                                                  *)
(***************************************************************************)
C6_ExtraFieldsUnion ==
    Merged =>
        LET old == Before.product.extra_fields
            inc == Incoming.extra_fields
            new == After.product.extra_fields
        IN /\ DOMAIN new = DOMAIN old \cup DOMAIN inc
           /\ \A k \in DOMAIN old \cap DOMAIN inc :
                  new[k] = IF Truthy(inc[k]) THEN inc[k] ELSE old[k]
           /\ \A k \in DOMAIN old \ DOMAIN inc : new[k] = old[k]
           /\ \A k \in DOMAIN inc \ DOMAIN old : new[k] = inc[k]

C6_Witness ==
    /\ Merged
    /\ \E k \in DOMAIN Before.product.extra_fields
                 \cap DOMAIN Incoming.extra_fields :
           /\ Truthy(Before.product.extra_fields[k])
           /\ ~Truthy(Incoming.extra_fields[k])
    /\ \E k \in DOMAIN Incoming.extra_fields :
           k \notin DOMAIN Before.product.extra_fields

(***************************************************************************)
(* C7: the returned list is the keyed products in the order in which their *)
(* keys first appear among the cards, followed by the products of the      *)
(* cards without a key in card order.                                      *)
(***************************************************************************)
CardIndices == [i \in 1..Len(Selected) |-> i]

CardKeys == [i \in 1..Len(Selected) |-> CardKeyAt(i)]

C7_ResultOrder ==
    Finished =>
        LET keys == CardKeys
            firsts == SelectSeq(CardIndices,
                          LAMBDA i : /\ Truthy(keys[i])
                                     /\ \A j \in 1..(i - 1) : keys[j] # keys[i])
            keyless == SelectSeq(CardIndices, LAMBDA i : ~Truthy(keys[i]))
        IN /\ Len(result) = Len(firsts) + Len(keyless)
           /\ \A p \in 1..Len(firsts) : KeyOf(result[p]) = keys[firsts[p]]
           /\ \A q \in 1..Len(keyless) :
                  result[Len(firsts) + q] = CardProductAt(keyless[q]).product

C7_Witness ==
    /\ Finished
    /\ \E a, b, c \in 1..Len(Selected) :
           /\ a < b /\ b < c
           /\ Truthy(CardKeyAt(a))
           /\ Truthy(CardKeyAt(b))
           /\ CardKeyAt(a) # CardKeyAt(b)
           /\ CardKeyAt(c) = CardKeyAt(a)

(***************************************************************************)
(* C8: no entry of the returned list lacks both an item_number and a       *)
(* description.                                                            *)
(***************************************************************************)
C8_NoPlaceholder ==
    Finished =>
        \A i \in 1..Len(result) :
            Truthy(result[i].item_number) \/ Truthy(result[i].description)

(***************************************************************************)
(* C9: when the listing selector matches no card of a page that has cards  *)
(* of the older layout, the returned list is the one returned for the same *)
(* cards in the current layout.                                            *)
(***************************************************************************)
AsCurrentLayout(page) ==
    [i \in 1..Len(page) |-> [page[i] EXCEPT !.selected = TRUE]]

C9_LegacyFallback ==
    (Finished /\ Selected = <<>> /\ html # <<>>)
        => result = ParsePage(AsCurrentLayout(html), manufacturer,
                              base_url_arg, hash_order)

(***************************************************************************)
(* C10: slugify_key applied to a slug returns the slug.                    *)
(***************************************************************************)
C10_SlugIdempotent == pc = "reslugged" => reslug = slug

C10_Witness ==
    /\ pc = "reslugged"
    /\ slug = <<"v","a","l","u","e">>
    /\ value # <<>>

(***************************************************************************)
(* C11: the dictionary as_flat_dict returns has, for every location key k  *)
(* of inventory_by_location, the key "inventory_" + slugify_key(k), and    *)
(* its value is inventory_by_location[k]; two location keys with the same  *)
(* slug included.                                                          *)
(***************************************************************************)
C11_InventoryRoundTrip ==
    pc = "flattened" =>
        \A k \in DOMAIN flat_self.inventory_by_location :
            LET column == <<"inventory_">> \o slugify_key(k)
            IN /\ column \in DOMAIN flat
               /\ flat[column] = flat_self.inventory_by_location[k]

(***************************************************************************)
(* Vocabulary of the client properties                                     *)
(***************************************************************************)
\* the positions in requests of the GETs of the client's base URL
Bootstraps ==
    {i \in 1..Len(requests) :
         requests[i].method = "GET" /\ requests[i].url = client.base_url}

\* the last transition was a call of method
JustCalled(method) ==
    /\ Len(calls') = Len(calls) + 1
    /\ calls'[Len(calls')].method = method

BlankCredentials == client.email = <<>> \/ client.password = <<>>

C14_CanonicalBaseUrl ==
    pc = "client" =>
        \A i \in 1..Len(requests) :
            ( /\ requests[i].context = "session bootstrap"
              /\ requests[i].outcome = "ok"
              /\ requests[i].response_url[1] # requests[i].url[1] )
                => /\ client.base_url = <<requests[i].response_url[1], "/">>
                   /\ client.Referer = <<requests[i].response_url[1], "/">>
                   /\ \A j \in (i + 1)..Len(requests) :
                          requests[j].url[1] = requests[i].response_url[1]

(***************************************************************************)
(* Vocabulary of the collector property                                    *)
(***************************************************************************)
\* the products of the page of a requested manufacturer
ParsedFor(mfr) == ParsePage(pages[mfr], mfr, DEFAULT_BASE_URL, hash_order)

\* the rows of result.rows that belong to a manufacturer, in order
RowsOf(mfr) ==
    SelectSeq(result_rows, LAMBDA row : row[<<"manufacturer">>] = mfr)

\* how often a manufacturer is requested
Occurrences(mfr) ==
    Cardinality({i \in 1..Len(manufacturers) : manufacturers[i] = mfr})

(***************************************************************************)
(* C15: when collect_manufacturer_rows has returned, empty_manufacturers   *)
(* is the list of the requested manufacturers whose page parses to no      *)
(* product, in request order, and no row belongs to them; a manufacturer   *)
(* whose page has products is not in empty_manufacturers and has one       *)
(* flattened row per product for each time it was requested.               *)
(***************************************************************************)
C15_Partition ==
    pc = "collected" =>
        /\ empty_manufacturers =
               SelectSeq(manufacturers, LAMBDA mfr : ParsedFor(mfr) = <<>>)
        /\ \A i \in 1..Len(manufacturers) :
               LET mfr == manufacturers[i]
                   prods == ParsedFor(mfr)
               IN IF prods = <<>>
                  THEN RowsOf(mfr) = <<>>
                  ELSE /\ \A j \in 1..Len(empty_manufacturers) :
                              empty_manufacturers[j] # mfr
                       /\ Len(RowsOf(mfr)) = Occurrences(mfr) * Len(prods)
                       /\ \A r \in 1..Len(RowsOf(mfr)) :
                              RowsOf(mfr)[r] =
                                  as_flat_dict(prods[((r - 1) % Len(prods)) + 1])
        /\ \A r \in 1..Len(result_rows) :
               \E i \in 1..Len(manufacturers) :
                   result_rows[r][<<"manufacturer">>] = manufacturers[i]

C15_Witness ==
    /\ pc = "collected"
    /\ Len(manufacturers) = 2
    /\ Len(empty_manufacturers) = 1
    /\ Len(result_rows) = 2

(***************************************************************************)
(* C16: in every merge, each of model, description, stock_status,          *)
(* detail_url and image_url of the keyed product keeps its value when that *)
(* value is not blank; when it is empty or blank the field takes the       *)
(* card's value if the card has one and is unchanged otherwise.            *)
(***************************************************************************)
ScalarAttrs ==
    {"model", "description", "stock_status", "detail_url", "image_url"}

NonBlank(v) == Truthy(v) /\ Strip(v) # <<>>

C16_ScalarsOnlyRefined ==
    Merged =>
        \A attr \in ScalarAttrs :
            After.product[attr] =
                IF NonBlank(Before.product[attr]) THEN Before.product[attr]
                ELSE IF Truthy(Incoming[attr]) THEN Incoming[attr]
                ELSE Before.product[attr]

C16_Witness ==
    /\ Merged
    /\ \E attr \in ScalarAttrs :
           /\ NonBlank(Before.product[attr])
           /\ Truthy(Incoming[attr])
           /\ Incoming[attr] # Before.product[attr]
    /\ \E attr \in ScalarAttrs :
           /\ ~NonBlank(Before.product[attr])
           /\ Truthy(Incoming[attr])
           /\ After.product[attr] = Incoming[attr]

(***************************************************************************)
(* C17: the list parse_manufacturer_products returns for a page does not   *)
(* depend on the run: it is the list of every iteration order of the set   *)
(* of price-like labels, so a card with several price-like fields gets its *)
(* price from the same field in every run.                                 *)
(***************************************************************************)
C17_SameFieldEveryRun ==
    Finished =>
        \A order \in HashOrders :
            result = ParsePage(html, manufacturer, base_url_arg, order)

(***************************************************************************)
(* C18: in every returned Product, item_number, model, description,        *)
(* stock_status, detail_url and image_url are None or a non-empty string.  *)
(***************************************************************************)
OptionalScalars == ScalarAttrs \cup {"item_number"}

C18_NoEmptyString ==
    Finished =>
        \A i \in 1..Len(result) :
            \A attr \in OptionalScalars : result[i][attr] # <<>>

(***************************************************************************)
(* C19: with the key of a card being its item_number when that is          *)
(* non-empty and its resolved detail_url otherwise, the returned list has  *)
(* one entry per distinct non-empty key and, after them, one entry per     *)
(* card without a key: the product of that card alone, in card order, also *)
(* when two such cards are identical.                                      *)
(***************************************************************************)
C19_KeyAndStandalone ==
    Finished =>
        LET n == Len(Selected)
            item(i) == _extract_item_number(Selected[i])
            key(i) == IF item(i) # None /\ item(i) # <<>> THEN item(i)
                      ELSE CardProductAt(i).product.detail_url
            keyed == {i \in 1..n : Truthy(key(i))}
            keyless == (1..n) \ keyed
            rank(i) == Cardinality({j \in keyless : j <= i})
            nkeys == Cardinality({key(i) : i \in keyed})
        IN /\ Len(result) = nkeys + Cardinality(keyless)
           /\ \A i \in keyless :
                  result[nkeys + rank(i)] = CardProductAt(i).product

C19_Witness ==
    /\ Finished
    /\ \E a, b, c \in 1..Len(Selected) :
           /\ a < b
           /\ Selected[a] = Selected[b]
           /\ ~Truthy(CardKeyAt(a))
           /\ ~Truthy(CardProductAt(c).product.item_number)
           /\ Truthy(CardProductAt(c).product.detail_url)

(***************************************************************************)
(* C20: a merge into a keyed product whose price_text is non-empty and not *)
(* field-derived leaves price_text and the flag as they were; and when the *)
(* parser has returned, a product whose key has a card with a dedicated    *)
(* price has the price of the first such card.                             *)
(***************************************************************************)
C20_DedicatedPriceFixed ==
    /\ (Merged /\ Truthy(Before.product.price_text) /\ ~Before.from_fields)
           => /\ After.product.price_text = Before.product.price_text
              /\ ~After.from_fields
    /\ Finished =>
           \A i \in 1..Len(Selected) :
               ( /\ Truthy(CardKeyAt(i))
                 /\ Truthy(_extract_price(Selected[i]))
                 /\ \A j \in 1..(i - 1) :
                        CardKeyAt(j) = CardKeyAt(i)
                            => ~Truthy(_extract_price(Selected[j])) )
                   => products[CardKeyAt(i)].product.price_text
                          = _extract_price(Selected[i])

C20_Witness ==
    /\ Merged
    /\ Truthy(Before.product.price_text)
    /\ ~Before.from_fields
    /\ Truthy(Incoming.price_text)
    /\ ~IncomingFromFields
    /\ Incoming.price_text # Before.product.price_text

(***************************************************************************)
(* C21: when parse_manufacturer_products has returned, no entry of the     *)
(* returned list has a price_text that is a login sentinel ("log in" or    *)
(* "sign in" in any letter case); a price that is only a sentinel is None. *)
(***************************************************************************)
C21_NoLoginSentinelPrice ==
    Finished =>
        \A i \in 1..Len(result) :
            ~(Truthy(result[i].price_text) /\ IsLogin(result[i].price_text))

(***************************************************************************)
(* C22: when the page has a card with a key (a non-empty item_number or    *)
(* detail_url) that is immediately followed by a copy of itself, the       *)
(* returned list is the list returned for the page without the copy.       *)
(***************************************************************************)
WithoutCard(page, i) ==
    [j \in 1..(Len(page) - 1) |-> IF j < i THEN page[j] ELSE page[j + 1]]

HasKey(card) ==
    LET p == CardProduct(card, manufacturer, NormBase(base_url_arg),
                         hash_order).product
    IN card.selected /\ (Truthy(p.item_number) \/ Truthy(p.detail_url))

C22_RepetitionIdempotent ==
    Finished =>
        \A i \in 1..(Len(html) - 1) :
            (html[i + 1] = html[i] /\ HasKey(html[i]))
                => result = ParsePage(WithoutCard(html, i + 1), manufacturer,
                                      base_url_arg, hash_order)

C22_Witness ==
    /\ Finished
    /\ \E i \in 2..(Len(html) - 1) :
           /\ html[i + 1] = html[i]
           /\ HasKey(html[i])
           /\ html[i - 1] # html[i]
           /\ HasKey(html[i - 1])
           /\ CardKeyAt(i - 1) = CardKeyAt(i)
           /\ Truthy(html[i].formValue)
           /\ html[i].tables # <<>>

=============================================================================
